---- MODULE Spec2Model ----
(***************************************************************************)
(* cm4-fan-control-rs: the fan control loop of src/main.rs.                *)
(*                                                                         *)
(* Temperatures are held in millidegrees Celsius (the unit of the sensor   *)
(* file), so the f32 value t of the source is T / 1000.  Fan percentages   *)
(* are held in units of 1 / FAN_MAX (FAN_MAX == 4000000), which makes the  *)
(* halvings of fan_curve exact; the resulting duty byte agrees with the    *)
(* f32 arithmetic of the source for every millidegree value in 0..120000.  *)
(*                                                                         *)
(* The program installs no signal handler, so a termination signal has the *)
(* default disposition: the process is ended at whatever point it is       *)
(* delivered.  RaiseSignal / DeliverSignal model that environment.         *)
(***************************************************************************)
EXTENDS Integers, Sequences, FiniteSets, TLC

\* ------------------------------------------------------------------ bounds
\* Number of loop iterations explored.
MaxTicks == 3
\* The temperature sweep covers 0 .. MaxGridIndex tenths of a degree.
MaxGridIndex == 1200

\* ------------------------------------------------------- program constants
OFF_TEMP == 40000
MIN_TEMP == 45000
MAX_TEMP == 75000
FAN_OFF == 0
FAN_LOW == 400000
FAN_MAX == 4000000
FAN_GAIN == (FAN_MAX - FAN_LOW) \div (MAX_TEMP - MIN_TEMP)
MAX_SPEED == 255
\* The largest u8: `as u8` saturates there.
U8_MAX == 255
\* The value get_cpu_temp substitutes for an unreadable or unparsable sensor.
FALLBACK_TEMP == 45000

\* ------------------------------------------------------------ environment
\* Sensor file contents that parse as a number (millidegrees).
Temps == {30000, 42000, 45000, 60000, 80000}
\* Outcomes of std::fs::read_to_string followed by trim().parse::<f32>().
SensorReads ==
    [kind : {"number"}, millis : Temps]
        \cup [kind : {"garbage", "PermissionDenied", "NotFound", "OtherIo"}, millis : {0}]
\* Outcomes of I2c::with_bus.
OpenResults == {"Ok", "PermissionDenied", "NotFound", "OtherIo", "OtherError"}
\* Outcomes of the other bus calls.
BusResults == {"Ok", "Err"}
\* Duty values the fan controller may hold when the program starts.
InitialDuties == {0, 25, 171}

Min(a, b) == IF a < b THEN a ELSE b

\* ------------------------------------------------------------- fan curve
\* 10^6 * sin(pi * T / 50000) for T = 45000, 45100, ..., 75000.
SinTable ==
    << 309017, 303035, 297042, 291036, 285019, 278991, 272952, 266902, 260842, 254771,
       248690, 242599, 236499, 230389, 224271, 218143, 212007, 205863, 199710, 193549,
       187381, 181206, 175023, 168833, 162637, 156434, 150226, 144011, 137790, 131564,
       125333, 119097, 112856, 106611, 100362, 94108, 87851, 81591, 75327, 69060,
       62791, 56519, 50244, 43968, 37690, 31411, 25130, 18848, 12566, 6283,
       0, -6283, -12566, -18848, -25130, -31411, -37690, -43968, -50244, -56519,
       -62791, -69060, -75327, -81591, -87851, -94108, -100362, -106611, -112856, -119097,
       -125333, -131564, -137790, -144011, -150226, -156434, -162637, -168833, -175023, -181206,
       -187381, -193549, -199710, -205863, -212007, -218143, -224271, -230389, -236499, -242599,
       -248690, -254771, -260842, -266902, -272952, -278991, -285019, -291036, -297042, -303035,
       -309017, -314987, -320944, -326888, -332820, -338738, -344643, -350534, -356412, -362275,
       -368125, -373959, -379779, -385584, -391374, -397148, -402906, -408649, -414376, -420086,
       -425779, -431456, -437116, -442758, -448383, -453990, -459580, -465151, -470704, -476238,
       -481754, -487250, -492727, -498185, -503623, -509041, -514440, -519817, -525175, -530511,
       -535827, -541121, -546394, -551646, -556876, -562083, -567269, -572432, -577573, -582690,
       -587785, -592857, -597905, -602930, -607930, -612907, -617860, -622788, -627691, -632570,
       -637424, -642253, -647056, -651834, -656586, -661312, -666012, -670686, -675333, -679953,
       -684547, -689114, -693653, -698165, -702650, -707107, -711536, -715936, -720309, -724653,
       -728969, -733255, -737513, -741742, -745941, -750111, -754251, -758362, -762443, -766493,
       -770513, -774503, -778462, -782391, -786288, -790155, -793990, -797794, -801567, -805308,
       -809017, -812694, -816339, -819952, -823533, -827081, -830596, -834078, -837528, -840945,
       -844328, -847678, -850994, -854277, -857527, -860742, -863923, -867071, -870184, -873262,
       -876307, -879316, -882291, -885231, -888136, -891007, -893841, -896641, -899405, -902134,
       -904827, -907484, -910106, -912692, -915241, -917755, -920232, -922673, -925077, -927445,
       -929776, -932071, -934329, -936550, -938734, -940881, -942991, -945063, -947098, -949096,
       -951057, -952979, -954865, -956712, -958522, -960294, -962028, -963724, -965382, -967001,
       -968583, -970127, -971632, -973099, -974527, -975917, -977268, -978581, -979855, -981091,
       -982287, -983445, -984564, -985645, -986686, -987688, -988652, -989576, -990461, -991308,
       -992115, -992883, -993611, -994301, -994951, -995562, -996134, -996666, -997159, -997613,
       -998027, -998402, -998737, -999033, -999289, -999507, -999684, -999822, -999921, -999980,
       -1000000 >>

\* sin(PI * temp / 50.0), scaled by 10^6: defined on the tenth-of-a-degree grid
\* of [45, 75] and at 74.999.
SinMicro(T) ==
    IF T = 74999 THEN -1000000
    ELSE SinTable[((T - MIN_TEMP) \div 100) + 1]

fan_curve_sign_flipped(T) ==
    (((FAN_MAX + 4 * SinMicro(T)) \div 2)
        + (FAN_LOW + (Min(T - MIN_TEMP, MAX_TEMP) * FAN_GAIN)))
    \div 2

\* fan_curve: the average of the sine ease-in term and the linear ramp.
fan_curve(T) ==
    (((FAN_MAX - 4 * SinMicro(T)) \div 2)
        + (FAN_LOW + (Min(T - MIN_TEMP, MAX_TEMP) * FAN_GAIN)))
    \div 2

FanBranchUpperInclusive(T) ==
    IF T <= OFF_TEMP THEN "off"
    ELSE IF T <= MIN_TEMP THEN "low"
    ELSE IF T <= MAX_TEMP THEN "curve"
    ELSE "max"

\* The arm the match of handle_fan_speed selects for a temperature.
FanBranch(T) ==
    IF T < OFF_TEMP THEN "off"
    ELSE IF T < MIN_TEMP THEN "low"
    ELSE IF T < MAX_TEMP THEN "curve"
    ELSE "max"

\* The match of handle_fan_speed: the percentage for a temperature.
fan_percentage(T) ==
    CASE FanBranch(T) = "off" -> FAN_OFF
      [] FanBranch(T) = "low" -> FAN_LOW
      [] FanBranch(T) = "curve" -> fan_curve(T)
      [] OTHER -> FAN_MAX

SpeedOfRounded(percentage) ==
    Min(U8_MAX, ((MAX_SPEED * percentage) + (FAN_MAX \div 2)) \div FAN_MAX)

\* (MAX_SPEED as f32 * fan_percentage) as u8: truncation toward zero, saturating.
SpeedOf(percentage) == Min(U8_MAX, (MAX_SPEED * percentage) \div FAN_MAX)

\* The duty byte handle_fan_speed computes for a temperature.
DutyOf(T) == SpeedOf(fan_percentage(T))

\* ------------------------------------------------------------------ state
VARIABLES
    pc,            \* position of main
    FAN_SPEED,     \* the static FAN_SPEED: the last duty written (ControllerState)
    reg,           \* the duty register of the fan controller
    initial_speed, \* main's local initial_speed
    cpu_temp,      \* main's local cpu_temp (millidegrees)
    fan_speed,     \* handle_fan_speed's local fan_speed
    tick,          \* number of the loop iteration in progress (0 during startup)
    signalled,     \* a termination signal is pending
    killedAt,      \* where the process was when the signal ended it, or "none"
    sensorLog,     \* per tick: the outcome of the sensor read
    dutyLog,       \* per tick: the computed duty and FAN_SPEED at the comparison
    writeLog,      \* bus writes issued: tick, value, result
    busReads,      \* number of bus reads issued
    statusLog,     \* status lines printed on stdout
    diagnostics,   \* number of failure messages printed on stderr
    startLog,      \* startup calls made so far: operation and result
    locked,        \* the FAN_SPEED mutex is held by handle_fan_speed
    seen,          \* what another accessor of FAN_SPEED last read
    curveT,        \* fan curve sweep: the temperature applied (millidegrees)
    curveOut,      \* fan curve sweep: the arm and duty computed for curveT
    curveMax       \* fan curve sweep: the largest duty of the lower temperatures

vars ==
    << pc, FAN_SPEED, reg, initial_speed, cpu_temp, fan_speed, tick, signalled,
       killedAt, sensorLog, dutyLog, writeLog, busReads, statusLog, diagnostics,
       startLog, locked, seen, curveT, curveOut, curveMax >>

Terminated == {"exited", "panicked", "killed"}
Alive == pc \notin Terminated

ProgramInit ==
    /\ pc = "open"
    /\ FAN_SPEED = 0
    /\ reg \in InitialDuties
    /\ initial_speed = 0
    /\ cpu_temp = 0
    /\ fan_speed = 0
    /\ tick = 0
    /\ signalled = FALSE
    /\ killedAt = "none"
    /\ sensorLog = << >>
    /\ dutyLog = << >>
    /\ writeLog = << >>
    /\ busReads = 0
    /\ statusLog = << >>
    /\ diagnostics = 0
    /\ startLog = << >>
    /\ locked = FALSE
    /\ seen = [read |-> FALSE, value |-> 0, last |-> 0]

\* The program at its start; no temperature sweep is under way.
Init ==
    /\ ProgramInit
    /\ curveT = 0
    /\ curveOut = [applied |-> FALSE, branch |-> "off", duty |-> 0]
    /\ curveMax = 0

\* ---------------------------------------------------------------- startup
\* Where main goes after I2c::with_bus returns r.
AfterOpen(r) ==
    CASE r = "Ok" -> "set_addr"
      [] r \in {"PermissionDenied", "NotFound"} -> "exited"
      [] OTHER -> "panicked"

OpenBus ==
    /\ pc = "open"
    /\ \E r \in OpenResults :
        /\ pc' = AfterOpen(r)
        /\ startLog' = Append(startLog, [op |-> "open", res |-> r, value |-> 0])
        /\ diagnostics' = IF r = "Ok" THEN diagnostics ELSE diagnostics + 1
    /\ UNCHANGED << locked, seen, curveT, curveOut, curveMax >>
    /\ UNCHANGED << FAN_SPEED, reg, initial_speed, cpu_temp, fan_speed, tick, signalled,
                    killedAt, sensorLog, dutyLog, writeLog, busReads, statusLog >>

AfterAddressIgnored(r) == "read_back"

\* i2c.set_slave_address(I2C_SLA).unwrap()
AfterAddress(r) == IF r = "Ok" THEN "read_back" ELSE "panicked"

SetSlaveAddress ==
    /\ pc = "set_addr"
    /\ \E r \in BusResults :
        /\ pc' = AfterAddress(r)
        /\ startLog' = Append(startLog, [op |-> "address", res |-> r, value |-> 0])
        /\ diagnostics' = IF AfterAddress(r) = "panicked" THEN diagnostics + 1
                          ELSE diagnostics
    /\ UNCHANGED << locked, seen, curveT, curveOut, curveMax >>
    /\ UNCHANGED << FAN_SPEED, reg, initial_speed, cpu_temp, fan_speed, tick, signalled,
                    killedAt, sensorLog, dutyLog, writeLog, busReads, statusLog >>

AfterReadBackDefaulted(r) == "seed"

\* i2c.smbus_read_byte(I2C_CMD).unwrap()
AfterReadBack(r) == IF r = "Ok" THEN "seed" ELSE "panicked"

ReadBack ==
    /\ pc = "read_back"
    /\ busReads' = busReads + 1
    /\ \E r \in BusResults :
        /\ pc' = AfterReadBack(r)
        /\ startLog' = Append(startLog, [op |-> "read_back", res |-> r, value |-> reg])
        /\ initial_speed' = IF r = "Ok" THEN reg ELSE initial_speed
        /\ diagnostics' = IF AfterReadBack(r) = "panicked" THEN diagnostics + 1
                          ELSE diagnostics
    /\ UNCHANGED << locked, seen, curveT, curveOut, curveMax >>
    /\ UNCHANGED << FAN_SPEED, reg, cpu_temp, fan_speed, tick, signalled, killedAt,
                    sensorLog, dutyLog, writeLog, statusLog >>

SeedValueZero(initial) == 0

\* *fan_speed = initial_speed
SeedValue(initial) == initial

SeedState ==
    /\ pc = "seed"
    /\ FAN_SPEED' = SeedValue(initial_speed)
    /\ tick' = 1
    /\ pc' = "read_temp"
    /\ UNCHANGED << startLog, locked, seen, curveT, curveOut, curveMax >>
    /\ UNCHANGED << reg, initial_speed, cpu_temp, fan_speed, signalled, killedAt,
                    sensorLog, dutyLog, writeLog, busReads, statusLog, diagnostics >>

\* ------------------------------------------------------------ control loop
\* get_cpu_temp panics when the sensor file is denied or absent.
SensorPanics(r) == r.kind \in {"PermissionDenied", "NotFound"}

\* A sensor read that did not produce a temperature: any I/O error, or content
\* that does not parse.
SensorFailure(r) == r.kind # "number"

\* The value get_cpu_temp returns when it returns: the parsed content, or the
\* fallback for any other I/O error ("45000") and for unparsable content
\* (unwrap_or(45000.0)).
get_cpu_temp(r) == IF r.kind = "number" THEN r.millis ELSE FALLBACK_TEMP

GetCpuTemp ==
    /\ pc = "read_temp"
    /\ \E r \in SensorReads :
        /\ sensorLog' = Append(sensorLog, r)
        /\ IF SensorPanics(r)
           THEN /\ pc' = "panicked"
                /\ diagnostics' = diagnostics + 1
                /\ UNCHANGED cpu_temp
           ELSE /\ pc' = "handle"
                /\ cpu_temp' = get_cpu_temp(r)
                /\ UNCHANGED diagnostics
    /\ UNCHANGED << startLog, locked, seen, curveT, curveOut, curveMax >>
    /\ UNCHANGED << FAN_SPEED, reg, initial_speed, fan_speed, tick, signalled, killedAt,
                    dutyLog, writeLog, busReads, statusLog >>

LockHeldCompareOnly(p) == FALSE

\* let mut old_speed = FAN_SPEED.lock().unwrap(): the guard lives until
\* handle_fan_speed returns, so it is held while the write is in flight and
\* until FAN_SPEED has been assigned.
LockHeldAt(p) == p \in {"writing", "update"}

NeedsWriteAlways(old_speed, new_speed) == TRUE

NeedsWriteOnIncrease(old_speed, new_speed) == old_speed < new_speed

\* if old_speed.clone() != fan_speed
NeedsWrite(old_speed, new_speed) == old_speed # new_speed

\* handle_fan_speed up to the comparison: compute the duty, lock FAN_SPEED, compare;
\* either return Ok(fan_speed) at once or issue smbus_write_byte.
HandleFanSpeed ==
    /\ pc = "handle"
    /\ fan_speed' = DutyOf(cpu_temp)
    /\ dutyLog' = Append(dutyLog, [duty |-> fan_speed', old |-> FAN_SPEED])
    /\ IF NeedsWrite(FAN_SPEED, fan_speed')
       THEN /\ writeLog' =
                  Append(writeLog, [tick |-> tick, value |-> fan_speed', res |-> "inflight"])
            /\ pc' = "writing"
       ELSE /\ UNCHANGED writeLog
            /\ pc' = "print"
    /\ locked' = LockHeldAt(pc')
    /\ UNCHANGED << startLog, seen, curveT, curveOut, curveMax >>
    /\ UNCHANGED << FAN_SPEED, reg, initial_speed, cpu_temp, tick, signalled, killedAt,
                    sensorLog, busReads, statusLog, diagnostics >>

AfterWriteErrorIgnored == "sleep"

AfterWriteErrorUnwrapOr == "print"

\* `?` returns the error to main, where expect("Error setting fan speed") panics.
AfterWriteError == "panicked"

\* The bus write in flight resolves.
WriteResolve ==
    /\ pc = "writing"
    /\ \E r \in BusResults :
        /\ writeLog' = [writeLog EXCEPT ![Len(writeLog)].res = r]
        /\ IF r = "Ok"
           THEN /\ reg' = fan_speed
                /\ pc' = "update"
                /\ UNCHANGED diagnostics
           ELSE /\ UNCHANGED reg
                /\ pc' = AfterWriteError
                /\ diagnostics' = IF AfterWriteError = "panicked"
                                  THEN diagnostics + 1 ELSE diagnostics
    /\ locked' = LockHeldAt(pc')
    /\ UNCHANGED << startLog, seen, curveT, curveOut, curveMax >>
    /\ UNCHANGED << FAN_SPEED, initial_speed, cpu_temp, fan_speed, tick, signalled,
                    killedAt, sensorLog, dutyLog, busReads, statusLog >>

StoredSpeedStale(old_speed, new_speed) == old_speed

\* *old_speed = fan_speed
StoredSpeed(old_speed, new_speed) == new_speed

UpdateState ==
    /\ pc = "update"
    /\ FAN_SPEED' = StoredSpeed(FAN_SPEED, fan_speed)
    /\ pc' = "print"
    /\ locked' = LockHeldAt(pc')
    /\ UNCHANGED << startLog, seen, curveT, curveOut, curveMax >>
    /\ UNCHANGED << reg, initial_speed, cpu_temp, fan_speed, tick, signalled, killedAt,
                    sensorLog, dutyLog, writeLog, busReads, statusLog, diagnostics >>

\* Whether the tick in progress issued a bus write.
WroteThisTick == \E j \in DOMAIN writeLog : writeLog[j].tick = tick

PrintsStatusOnChange(wrote) == wrote

\* println! follows handle_fan_speed unconditionally.
PrintsStatus(wrote) == TRUE

PrintStatus ==
    /\ pc = "print"
    /\ statusLog' =
          IF PrintsStatus(WroteThisTick)
          THEN Append(statusLog, [tick |-> tick, temp |-> cpu_temp, duty |-> fan_speed])
          ELSE statusLog
    /\ pc' = "sleep"
    /\ UNCHANGED << startLog, locked, seen, curveT, curveOut, curveMax >>
    /\ UNCHANGED << FAN_SPEED, reg, initial_speed, cpu_temp, fan_speed, tick, signalled,
                    killedAt, sensorLog, dutyLog, writeLog, busReads, diagnostics >>

\* std::thread::sleep returns and the loop starts its next iteration.
Tick ==
    /\ pc = "sleep"
    /\ tick < MaxTicks
    /\ tick' = tick + 1
    /\ pc' = "read_temp"
    /\ UNCHANGED << startLog, locked, seen, curveT, curveOut, curveMax >>
    /\ UNCHANGED << FAN_SPEED, reg, initial_speed, cpu_temp, fan_speed, signalled,
                    killedAt, sensorLog, dutyLog, writeLog, busReads, statusLog,
                    diagnostics >>

\* ------------------------------------------------------- termination signal
RaiseSignal ==
    /\ Alive
    /\ ~signalled
    /\ signalled' = TRUE
    /\ UNCHANGED << startLog, locked, seen, curveT, curveOut, curveMax >>
    /\ UNCHANGED << pc, FAN_SPEED, reg, initial_speed, cpu_temp, fan_speed, tick,
                    killedAt, sensorLog, dutyLog, writeLog, busReads, statusLog,
                    diagnostics >>

SignalIgnored(p) == p

SignalDeferred(p) == IF p = "sleep" THEN "killed" ELSE p

\* main installs no handler: the default disposition ends the process where it is.
SignalDisposition(p) == "killed"

\* The pending signal is delivered.  A write in flight may or may not have
\* reached the controller.
DeliverSignal ==
    /\ Alive
    /\ signalled
    /\ killedAt' = IF killedAt = "none" THEN pc ELSE killedAt
    /\ pc' = SignalDisposition(pc)
    /\ reg' \in (IF pc = "writing" THEN {reg, fan_speed} ELSE {reg})
    /\ UNCHANGED << startLog, locked, seen, curveT, curveOut, curveMax >>
    /\ UNCHANGED << FAN_SPEED, initial_speed, cpu_temp, fan_speed, tick, signalled,
                    sensorLog, dutyLog, writeLog, busReads, statusLog, diagnostics >>

\* The steps of the program itself.
ProgramNext ==
    \/ OpenBus
    \/ SetSlaveAddress
    \/ ReadBack
    \/ SeedState
    \/ GetCpuTemp
    \/ HandleFanSpeed
    \/ WriteResolve
    \/ UpdateState
    \/ PrintStatus
    \/ Tick

Next == ProgramNext \/ RaiseSignal \/ DeliverSignal

Spec == Init /\ [][Next]_vars

\* The kernel delivers a pending signal.
FairSpec == Spec /\ WF_vars(DeliverSignal)

\* ------------------------------------------------------------- properties
\* The loop has been entered (startup succeeded and ControllerState is seeded).
Running == tick >= 1

\* The ticks on which a bus write was issued.
WriteTicks == {writeLog[j].tick : j \in DOMAIN writeLog}

\* The ticks whose computed duty differs from FAN_SPEED as it stood on that tick.
DifferingTicks == {i \in DOMAIN dutyLog : dutyLog[i].duty # dutyLog[i].old}

\* The value of the most recent successful bus write, or the startup seed.
RECURSIVE LastOkFrom(_)
LastOkFrom(j) ==
    IF j = 0 THEN initial_speed
    ELSE IF writeLog[j].res = "Ok" THEN writeLog[j].value
    ELSE LastOkFrom(j - 1)

LastWritten == LastOkFrom(Len(writeLog))

OkWrites == {j \in DOMAIN writeLog : writeLog[j].res = "Ok"}

\* The process is, or was ended, between a successful write and the assignment
\* to FAN_SPEED that follows it.
AtUpdate == pc = "update" \/ (pc = "killed" /\ killedAt = "update")

\* C1: on every tick a bus write is issued if and only if the computed duty
\* differs from FAN_SPEED as it stands on that tick; so the writes are exactly
\* the positions of the duty sequence that differ, at most one write per tick.
C1_WriteIffDiffers ==
    /\ WriteTicks = DifferingTicks
    /\ Len(writeLog) = Cardinality(DifferingTicks)
    /\ \A j \in DOMAIN writeLog : writeLog[j].value = dutyLog[writeLog[j].tick].duty

\* Three ticks were computed, one repeated the duty in force and two changed it.
C1_Witness ==
    /\ Len(dutyLog) = 3
    /\ dutyLog[1].duty = 25 /\ dutyLog[2].duty = 25 /\ dutyLog[3].duty = 171
    /\ WriteTicks = {1, 3}
    /\ dutyLog[1].old = 0

\* C2: once the loop runs, FAN_SPEED is the value of the most recent successful
\* bus write, or the seed read at startup when none has succeeded; it changes
\* only in the step that follows a successful write (or when it is seeded), and
\* a write that fails leaves it as it was.
C2_Step ==
    /\ (Running /\ ~AtUpdate) => FAN_SPEED = LastWritten
    /\ (Running /\ ~AtUpdate)' => FAN_SPEED' = LastWritten'
    /\ FAN_SPEED' # FAN_SPEED =>
          \/ pc = "seed"
          \/ /\ pc = "update"
             /\ writeLog[Len(writeLog)].res = "Ok"
             /\ FAN_SPEED' = writeLog[Len(writeLog)].value
    /\ (pc = "writing" /\ writeLog'[Len(writeLog)].res = "Err") => FAN_SPEED' = FAN_SPEED

C2_StateTracksLastWrite == [][C2_Step]_vars

\* A write succeeded and was stored, then a later write failed.
C2_Witness ==
    /\ Len(writeLog) = 2
    /\ writeLog[1].res = "Ok"
    /\ writeLog[2].res = "Err"
    /\ FAN_SPEED = writeLog[1].value
    /\ FAN_SPEED # initial_speed

\* C3 (as claimed): a tick whose sensor read failed issues no bus write.
C3_NoWriteOnSensorFailure ==
    \A i \in DOMAIN sensorLog : SensorFailure(sensorLog[i]) => i \notin WriteTicks

\* C4 (as claimed): a sensor read failure moves the loop to FAILED: no
\* temperature is substituted, and no later tick runs.
C4_SensorFailureIsFatal ==
    \A i \in DOMAIN sensorLog :
        SensorFailure(sensorLog[i]) =>
            /\ pc = "panicked"
            /\ i = tick
            /\ Len(dutyLog) < i

\* C5: a bus write that fails is the last thing the session does: the process
\* has panicked on that tick, no later tick, sensor read or bus operation
\* follows, no status line is printed for the tick, and exactly one failure
\* message has been produced.
C5_WriteFailureEndsSession ==
    \A j \in DOMAIN writeLog :
        writeLog[j].res = "Err" =>
            /\ pc = "panicked"
            /\ j = Len(writeLog)
            /\ writeLog[j].tick = tick
            /\ Len(sensorLog) = tick
            /\ busReads = 1
            /\ diagnostics = 1
            /\ \A k \in DOMAIN statusLog : statusLog[k].tick # tick

\* The write of the second tick failed after the first tick completed.
C5_Witness ==
    /\ Len(writeLog) >= 1
    /\ writeLog[Len(writeLog)].res = "Err"
    /\ tick = 2
    /\ Len(statusLog) = 1

\* The ticks that ran to the end: handle_fan_speed returned Ok and println! ran.
CompletedTicks ==
    IF pc = "sleep" \/ (pc = "killed" /\ killedAt = "sleep")
    THEN tick
    ELSE IF tick = 0 THEN 0 ELSE tick - 1

C7_StatusAfterWrite ==
    \A j \in DOMAIN writeLog :
        /\ writeLog[j].res # "Ok" =>
              \A k \in DOMAIN statusLog : statusLog[k].tick # writeLog[j].tick
        /\ (writeLog[j].tick = tick /\ (pc \in {"writing", "update"} \/ AtUpdate)) =>
              \A k \in DOMAIN statusLog : statusLog[k].tick # tick
        /\ \A k \in DOMAIN statusLog :
              statusLog[k].tick = writeLog[j].tick =>
                  /\ writeLog[j].res = "Ok"
                  /\ statusLog[k].duty = writeLog[j].value

\* A tick wrote, succeeded and printed; the next tick's write failed.
C7_Witness ==
    /\ Len(writeLog) = 2
    /\ writeLog[1].res = "Ok"
    /\ writeLog[2].res = "Err"
    /\ Len(statusLog) = 1
    /\ statusLog[1].tick = writeLog[1].tick

\* C8: when the termination signal is observed while the loop sleeps between
\* ticks, the loop is terminated there and no step of the program is possible
\* any more: no later sensor read, bus read or bus write.
C8_CancelBetweenTicks ==
    killedAt = "sleep" =>
        /\ pc = "killed"
        /\ ~ENABLED ProgramNext
        /\ Len(sensorLog) = tick
        /\ \A j \in DOMAIN writeLog : writeLog[j].tick <= tick /\ writeLog[j].res # "inflight"
        /\ busReads = 1

\* The signal ended the loop in its sleep after a tick that wrote to the bus,
\* with further ticks still to come.
C8_Witness ==
    /\ killedAt = "sleep"
    /\ tick = 1
    /\ Len(writeLog) = 1

\* C9 (as claimed): the loop never terminates on cancellation between the start
\* of a bus write and its resolution, nor between a successful write and the
\* update of FAN_SPEED.
C9_NoTerminationMidActuation ==
    ~(pc = "killed" /\ killedAt \in {"writing", "update"})

\* C10: with the pending signal delivered fairly, a raised signal always leads
\* to the loop being terminated, however the tick path proceeds.
C10_SignalLeadsToTermination == signalled ~> (pc \in Terminated)

\* The signal was raised during a later tick and ended the process.
C10_Witness ==
    /\ signalled
    /\ pc = "killed"
    /\ tick = 2
    /\ killedAt = "handle"

\* The startup calls that failed.
StartFailures == {k \in DOMAIN startLog : startLog[k].res # "Ok"}

\* C11: when opening the bus or setting the peripheral address fails, the
\* process ends there with one failure message and the loop is never entered:
\* no sensor read, no bus read or write and no status line ever occurs.
C11_ActuatorFailureNeverRuns ==
    \A k \in StartFailures :
        startLog[k].op \in {"open", "address"} =>
            /\ pc \in {"exited", "panicked"}
            /\ k = Len(startLog)
            /\ tick = 0
            /\ sensorLog = << >>
            /\ dutyLog = << >>
            /\ writeLog = << >>
            /\ statusLog = << >>
            /\ busReads = 0
            /\ diagnostics = 1

\* The bus opened but setting the peripheral address failed.
C11_Witness ==
    /\ Len(startLog) = 2
    /\ startLog[1].res = "Ok"
    /\ startLog[2].op = "address"
    /\ startLog[2].res = "Err"
    /\ pc = "panicked"

\* The loop ended through a failure: exit(1) or a panic.
Failed == pc \in {"exited", "panicked"}

\* C12 (as claimed): whenever the loop has failed, the cancellation state is
\* raised.
C12_FailureRaisesCancellation == Failed => signalled

\* --------------------------------------------- another accessor of FAN_SPEED
\* FAN_SPEED is a Mutex: any other accessor reads it through lock(), which
\* waits while handle_fan_speed holds the guard.  The program itself starts no
\* such accessor; Observe stands for any that could exist.
Observe ==
    /\ Alive
    /\ Running
    /\ ~locked
    /\ seen' = [read |-> TRUE, value |-> FAN_SPEED, last |-> LastWritten]
    /\ UNCHANGED << pc, FAN_SPEED, reg, initial_speed, cpu_temp, fan_speed, tick,
                    signalled, killedAt, sensorLog, dutyLog, writeLog, busReads,
                    statusLog, diagnostics, startLog, locked, curveT, curveOut,
                    curveMax >>

ObsNext == Next \/ Observe

ObsSpec == Init /\ [][ObsNext]_vars

\* C13: the comparison, the bus write and the assignment to FAN_SPEED of one
\* tick are atomic for every other accessor: the guard is held from the issue
\* of the write until FAN_SPEED is assigned, so what an accessor reads is never
\* the old value once the write for a new one has succeeded.
C13_NoStaleRead ==
    /\ (Alive /\ pc \in {"writing", "update"}) => locked
    /\ seen.read => seen.value = seen.last

\* An accessor read FAN_SPEED after a tick had written and stored a new duty.
C13_Witness ==
    /\ seen.read
    /\ seen.value # initial_speed
    /\ Len(writeLog) >= 1
    /\ pc = "sleep"

\* ------------------------------------------------------- temperature sweep
\* The duty computation of handle_fan_speed applied to one temperature after
\* another, in rising order: every tenth of a degree, and the last millidegree
\* below each threshold.
OffGrid == {OFF_TEMP - 1, MIN_TEMP - 1, MAX_TEMP - 1}

CurvePoints == {i * 100 : i \in 0..MaxGridIndex} \cup OffGrid

\* Where a sweep may start.
CurveStarts == {0, OFF_TEMP - 1, OFF_TEMP, MIN_TEMP - 1, MIN_TEMP, MAX_TEMP - 1, MAX_TEMP}

\* The next temperature of the sweep.
CurveSucc(T) ==
    IF T \in OffGrid THEN T + 1
    ELSE IF (T + 99) \in OffGrid THEN T + 99
    ELSE T + 100

CurveInit ==
    /\ ProgramInit
    /\ curveT \in CurveStarts
    /\ curveOut = [applied |-> FALSE, branch |-> "off", duty |-> 0]
    /\ curveMax = 0

\* The match and the cast of handle_fan_speed, applied to curveT.
CurveApply ==
    /\ ~curveOut.applied
    /\ curveOut' = [applied |-> TRUE, branch |-> FanBranch(curveT), duty |-> DutyOf(curveT)]
    /\ UNCHANGED << pc, FAN_SPEED, reg, initial_speed, cpu_temp, fan_speed, tick,
                    signalled, killedAt, sensorLog, dutyLog, writeLog, busReads,
                    statusLog, diagnostics, startLog, locked, seen, curveT, curveMax >>

CurveAdvance ==
    /\ curveOut.applied
    /\ CurveSucc(curveT) \in CurvePoints
    /\ curveT' = CurveSucc(curveT)
    /\ curveMax' = IF curveOut.duty > curveMax THEN curveOut.duty ELSE curveMax
    /\ curveOut' = [applied |-> FALSE, branch |-> "off", duty |-> 0]
    /\ UNCHANGED << pc, FAN_SPEED, reg, initial_speed, cpu_temp, fan_speed, tick,
                    signalled, killedAt, sensorLog, dutyLog, writeLog, busReads,
                    statusLog, diagnostics, startLog, locked, seen >>

CurveNext == CurveApply \/ CurveAdvance

CurveSpec == CurveInit /\ [][CurveNext]_vars

\* C14: the duty byte is floor(percentage * 255) with the percentage fixed on
\* the flat regions: 0 below 40.0, 25 on [40.0, 45.0), 255 at and above 75.0.
C14_FlatRegions ==
    curveOut.applied =>
        /\ curveT < 40000 => curveOut.duty = 0
        /\ (40000 <= curveT /\ curveT < 45000) => curveOut.duty = 25
        /\ curveT >= 75000 => curveOut.duty = 255
        /\ curveOut.duty * FAN_MAX <= 255 * fan_percentage(curveT)
        /\ 255 * fan_percentage(curveT) < (curveOut.duty + 1) * FAN_MAX

\* The duty of 44.999 degrees, the top of the FAN_LOW floor, has been computed.
C14_Witness ==
    /\ curveOut.applied
    /\ curveT = 44999
    /\ curveOut.duty = 25

\* C15: the duty never decreases as the temperature rises: the duty of each
\* temperature is at least the duty of every lower temperature of the sweep,
\* across the thresholds at 40.0, 45.0 and 75.0 too.
C15_Monotone == curveOut.applied => curveOut.duty >= curveMax

\* The sweep crossed from the blended curve to full speed at 75.0.
C15_Witness ==
    /\ curveOut.applied
    /\ curveT = 75000
    /\ curveMax = 254
    /\ curveOut.duty = 255

\* C16: the thresholds belong to the upper arm: exactly 40.0 selects the
\* FAN_LOW floor, exactly 45.0 the blended curve, exactly 75.0 full speed,
\* while the last millidegree below each still selects the lower arm.
C16_LowerInclusive ==
    curveOut.applied =>
        /\ curveT = 39999 => (curveOut.branch = "off" /\ curveOut.duty = SpeedOf(FAN_OFF))
        /\ curveT = 40000 => (curveOut.branch = "low" /\ curveOut.duty = SpeedOf(FAN_LOW))
        /\ curveT = 44999 => (curveOut.branch = "low" /\ curveOut.duty = SpeedOf(FAN_LOW))
        /\ curveT = 45000 =>
              /\ curveOut.branch = "curve"
              /\ curveOut.duty = SpeedOf(fan_curve(45000))
              /\ curveOut.duty # SpeedOf(FAN_LOW)
        /\ curveT = 74999 => curveOut.branch = "curve"
        /\ curveT = 75000 => (curveOut.branch = "max" /\ curveOut.duty = SpeedOf(FAN_MAX))

\* The duty of exactly 45.0 degrees has been computed from the blended curve.
C16_Witness ==
    /\ curveOut.applied
    /\ curveT = 45000
    /\ curveOut.duty = 56

\* The startup calls all succeeded: open, address, read-back.
StartupOk ==
    /\ Len(startLog) = 3
    /\ \A k \in DOMAIN startLog : startLog[k].res = "Ok"
    /\ startLog[3].op = "read_back"

\* C17: FAN_SPEED is seeded before the first tick with the duty read back from
\* the controller, so a first tick whose duty equals the controller's value
\* issues no bus write; when the read-back fails the loop is never entered.
C17_SeededFromReadBack ==
    /\ Running =>
          /\ StartupOk
          /\ (dutyLog = << >>) => FAN_SPEED = startLog[3].value
          /\ (dutyLog # << >>) =>
                /\ dutyLog[1].old = startLog[3].value
                /\ (dutyLog[1].duty = startLog[3].value) => 1 \notin WriteTicks
    /\ \A k \in StartFailures :
          startLog[k].op = "read_back" =>
              /\ pc = "panicked"
              /\ tick = 0
              /\ sensorLog = << >>
              /\ writeLog = << >>

\* The controller already held duty 25 and the first tick computed 25: the tick
\* completed without a bus write.
C17_Witness ==
    /\ pc = "sleep"
    /\ tick = 1
    /\ StartupOk
    /\ startLog[3].value = 25
    /\ dutyLog[1].duty = 25
    /\ writeLog = << >>

\* C18: a tick issues at most one bus write and no bus read: the only bus read
\* of a run is the read-back of startup, and every bus write comes after open,
\* address and read-back have all succeeded.
C18_BusOperations ==
    /\ \A i, j \in DOMAIN writeLog : i < j => writeLog[i].tick < writeLog[j].tick
    /\ \A j \in DOMAIN writeLog : writeLog[j].tick \in 1..tick
    /\ busReads = Cardinality({k \in DOMAIN startLog : startLog[k].op = "read_back"})
    /\ busReads <= 1
    /\ Running => busReads = 1
    /\ writeLog # << >> => StartupOk

\* Three ticks each wrote once, after the single read of startup.
C18_Witness ==
    /\ Len(writeLog) = 3
    /\ writeLog[3].res = "Ok"
    /\ busReads = 1
    /\ pc = "sleep"

\* handle_fan_speed has returned Ok on the tick in progress.
ReturnedOk ==
    \/ pc \in {"print", "sleep"}
    \/ (pc = "killed" /\ killedAt \in {"print", "sleep"})

\* C19: when handle_fan_speed returns Ok, the duty it returns, which the status
\* line reports, is the value of FAN_SPEED, whether or not the tick wrote.
C19_ReturnedDutyIsState ==
    ReturnedOk =>
        /\ fan_speed = FAN_SPEED
        /\ \A k \in DOMAIN statusLog : statusLog[k].tick = tick => statusLog[k].duty = FAN_SPEED

\* A tick returned without writing, after an earlier tick had written: the duty
\* returned is the stored one.
C19_Witness ==
    /\ pc = "print"
    /\ tick = 2
    /\ WriteTicks = {1}
    /\ fan_speed # initial_speed
====
